---- MODULE Spec2Model ----
(***************************************************************************)
(* Model of the resume parser (src/parser.py).  A Python str is a sequence  *)
(* of one-character strings; non-printable characters are written by their *)
(* ASCII names ("SOH" is 0x01, "VT" is 0x0B, "US" is 0x1F).  A dict is a    *)
(* sequence of <<key, value>> pairs in insertion order.                    *)
(***************************************************************************)
EXTENDS Integers, Sequences, FiniteSets, TLC

VARIABLES pc, text, cleaned, recleaned, sections, contact, education,
          lines, cur_entry, entries, record, invoked, skills, summary

vars == <<pc, text, cleaned, recleaned, sections, contact, education,
          lines, cur_entry, entries, record, invoked, skills, summary>>

None == "None"

\* ------------------------------------------------------------------ str

Lower ==
  {"a","b","c","d","e","f","g","h","i","j","k","l","m","n","o","p","q","r","s","t","u","v","w","x","y","z"}

Upper ==
  {"A","B","C","D","E","F","G","H","I","J","K","L","M","N","O","P","Q","R","S","T","U","V","W","X","Y","Z"}

Digit == {"0","1","2","3","4","5","6","7","8","9"}

\* \w of the re module
WordChar == Lower \cup Upper \cup Digit \cup {"_"}

\* \s of the re module, and the characters str.strip() removes
Whitespace == {" ", "\t", "\n", "\r", "VT", "FF", "FS", "GS", "RS", "US"}

\* the boundaries str.splitlines() splits on
LineBreak == {"\n", "\r", "VT", "FF", "FS", "GS", "RS", "NEL", "LS", "PS"}

LowerOf ==
  ("A" :> "a") @@ ("B" :> "b") @@ ("C" :> "c") @@ ("D" :> "d") @@ ("E" :> "e") @@
  ("F" :> "f") @@ ("G" :> "g") @@ ("H" :> "h") @@ ("I" :> "i") @@ ("J" :> "j") @@
  ("K" :> "k") @@ ("L" :> "l") @@ ("M" :> "m") @@ ("N" :> "n") @@ ("O" :> "o") @@
  ("P" :> "p") @@ ("Q" :> "q") @@ ("R" :> "r") @@ ("S" :> "s") @@ ("T" :> "t") @@
  ("U" :> "u") @@ ("V" :> "v") @@ ("W" :> "w") @@ ("X" :> "x") @@ ("Y" :> "y") @@
  ("Z" :> "z")

\* str.lower() of one character
LowerChar(c) == IF c \in Upper THEN LowerOf[c] ELSE c

\* str.lower()
lower(s) == [i \in 1..Len(s) |-> LowerChar(s[i])]

RECURSIVE lstrip(_)
lstrip(s) ==
  IF s # <<>> /\ Head(s) \in Whitespace THEN lstrip(Tail(s)) ELSE s

RECURSIVE rstrip(_)
rstrip(s) ==
  IF s # <<>> /\ s[Len(s)] \in Whitespace THEN rstrip(SubSeq(s, 1, Len(s) - 1)) ELSE s

\* str.strip()
strip(s) == rstrip(lstrip(s))

\* s[i:] of a 1-based position
From(s, i) == SubSeq(s, i, Len(s))

\* s.startswith(p, i-1)
StartsAt(s, p, i) ==
  /\ i + Len(p) - 1 <= Len(s)
  /\ \A k \in 1..Len(p) : s[i + k - 1] = p[k]

\* p in s
Contains(s, p) == \E i \in 1..(Len(s) + 1) : StartsAt(s, p, i)

\* the elements of s at the positions lo..hi that are in K, in order
RECURSIVE KeepFrom(_, _, _, _)
KeepFrom(s, K, lo, hi) ==
  IF lo > hi THEN <<>>
  ELSE IF lo = hi THEN (IF lo \in K THEN <<s[lo]>> ELSE <<>>)
  ELSE LET mid == (lo + hi) \div 2
       IN KeepFrom(s, K, lo, mid) \o KeepFrom(s, K, mid + 1, hi)

Keep(s, K) == KeepFrom(s, K, 1, Len(s))

\* the least i in lo..hi with P(i), or 0
RECURSIVE FirstIn(_, _, _)
FirstIn(P(_), lo, hi) ==
  IF lo > hi THEN 0
  ELSE IF lo = hi THEN (IF P(lo) THEN lo ELSE 0)
  ELSE LET mid == (lo + hi) \div 2
           l == FirstIn(P, lo, mid)
       IN IF l # 0 THEN l ELSE FirstIn(P, mid + 1, hi)

\* sep.join(parts)
RECURSIVE join(_, _)
join(sep, parts) ==
  IF parts = <<>> THEN <<>>
  ELSE IF Len(parts) = 1 THEN parts[1]
  ELSE parts[1] \o sep \o join(sep, Tail(parts))

NL == <<"\n">>

\* str.splitlines(): "\r\n" is one boundary, a final boundary opens no line
splitlines(s) ==
  LET isBreak == [i \in 1..Len(s) |->
                    s[i] \in LineBreak /\ ~(s[i] = "\n" /\ i > 1 /\ s[i - 1] = "\r")]
      \* the boundaries, by the position of their first character
      bs == Keep([i \in 1..Len(s) |-> i], {i \in 1..Len(s) : isBreak[i]})
      after(i) == IF s[i] = "\r" /\ i < Len(s) /\ s[i + 1] = "\n" THEN i + 2 ELSE i + 1
      start(n) == IF n = 1 THEN 1 ELSE after(bs[n - 1])
      ended == [n \in 1..Len(bs) |-> SubSeq(s, start(n), bs[n] - 1)]
      rest == SubSeq(s, start(Len(bs) + 1), Len(s))
  IN IF rest = <<>> THEN ended ELSE Append(ended, rest)

\* the concatenation of a sequence of sequences
RECURSIVE Flatten(_)
Flatten(ss) == IF ss = <<>> THEN <<>> ELSE ss[1] \o Flatten(Tail(ss))

\* all sequences over S of length at most n
RECURSIVE SeqsUpTo(_, _)
SeqsUpTo(S, n) ==
  IF n = 0 THEN {<<>>}
  ELSE LET shorter == SeqsUpTo(S, n - 1)
       IN shorter \cup {Append(q, x) : q \in {r \in shorter : Len(r) = n - 1}, x \in S}

\* ------------------------------------------------------------ clean_text

Blank == {" ", "\t"}

\* [\x00-\x08\x0b\x0c\x0e-\x1f]
ControlChar == {"NUL", "SOH", "BS", "VT", "FF", "SO", "ESC", "FS", "GS", "RS", "US"}

\* text.replace("\r", "\n")
ReplaceCR(s) == [i \in 1..Len(s) |-> IF s[i] = "\r" THEN "\n" ELSE s[i]]

\* re.sub(r"[ \t]+", " ", text)
CollapseBlanks(s) ==
  LET firsts == {i \in 1..Len(s) : ~(s[i] \in Blank /\ i > 1 /\ s[i - 1] \in Blank)}
      one == [i \in 1..Len(s) |-> IF s[i] \in Blank THEN " " ELSE s[i]]
  IN Keep(one, firsts)

\* the length of the run of c that ends at position i
RECURSIVE RunEndingAt(_, _, _)
RunEndingAt(s, c, i) ==
  IF i >= 1 /\ s[i] = c THEN 1 + RunEndingAt(s, c, i - 1) ELSE 0

\* re.sub(r"\n{3,}", "\n\n", text)
CollapseNewlines(s) ==
  Keep(s, {i \in 1..Len(s) : ~(s[i] = "\n" /\ RunEndingAt(s, "\n", i) >= 3)})

\* re.sub(r"[\x00-\x08\x0b\x0c\x0e-\x1f]+", "", text)
StripControl(s) == Keep(s, {i \in 1..Len(s) : s[i] \notin ControlChar})

clean_text(s) == strip(StripControl(CollapseNewlines(CollapseBlanks(ReplaceCR(s)))))

\* ------------------------------------------------------------------ dict

DictKeys(d) == {d[i][1] : i \in 1..Len(d)}

DictGet(d, k) == LET i == CHOOSE j \in 1..Len(d) : d[j][1] = k IN d[i][2]

\* d[k] = v: a new key goes last, a key already there keeps its place
DictSet(d, k, v) ==
  IF k \in DictKeys(d)
    THEN [i \in 1..Len(d) |-> IF d[i][1] = k THEN <<k, v>> ELSE d[i]]
    ELSE Append(d, <<k, v>>)

\* -------------------------------------------------------- split_sections

SECTION_HEADERS == <<
  <<"e","x","p","e","r","i","e","n","c","e">>,
  <<"w","o","r","k"," ","e","x","p","e","r","i","e","n","c","e">>,
  <<"p","r","o","f","e","s","s","i","o","n","a","l"," ","e","x","p","e","r","i","e","n","c","e">>,
  <<"e","d","u","c","a","t","i","o","n">>,
  <<"s","k","i","l","l","s">>,
  <<"t","e","c","h","n","i","c","a","l"," ","s","k","i","l","l","s">>,
  <<"p","r","o","j","e","c","t","s">>,
  <<"c","e","r","t","i","f","i","c","a","t","i","o","n","s">>,
  <<"a","b","o","u","t">>,
  <<"s","u","m","m","a","r","y">>,
  <<"o","b","j","e","c","t","i","v","e">> >>

\* re.search(r"\bhdr\b", norm): hdr begins and ends with a word character
HeaderSearch(hdr, norm) ==
  \E i \in 1..Len(norm) :
    /\ StartsAt(norm, hdr, i)
    /\ (i = 1 \/ norm[i - 1] \notin WordChar)
    /\ (i + Len(hdr) - 1 = Len(norm) \/ norm[i + Len(hdr)] \notin WordChar)

\* the loop body of lines 106-110 appends (i, norm)
IsHeader(line) ==
  LET norm == lower(strip(line))
  IN \E h \in 1..Len(SECTION_HEADERS) : HeaderSearch(SECTION_HEADERS[h], norm)

\* the line numbers in header_idxs (1-based)
HeaderIdxs(ls) == Keep([i \in 1..Len(ls) |-> i], {i \in 1..Len(ls) : IsHeader(ls[i])})

\* "\n".join(lines[a-1:b]).strip()
Block(ls, a, b) == strip(join(NL, SubSeq(ls, a, b)))

\* a slip: an earlier section of the same name is kept
DictSetFirst(d, k, v) == IF k \in DictKeys(d) THEN d ELSE Append(d, <<k, v>>)

\* sections[header.lower()] = ...
SectionStore(d, k, v) == DictSet(d, k, v)

\* a slip: the header line itself opens the body
SegmentStartAtHeader(line_no) == line_no

\* start = line_no + 1
SegmentStart(line_no) == line_no + 1

\* the loop of lines 117-121, from the idx-th header on
RECURSIVE SectionsFrom(_, _, _, _)
SectionsFrom(ls, hs, idx, d) ==
  IF idx > Len(hs) THEN d
  ELSE LET start == SegmentStart(hs[idx])
           end == IF idx + 1 <= Len(hs) THEN hs[idx + 1] - 1 ELSE Len(ls)
           header == strip(ls[hs[idx]])
       IN SectionsFrom(ls, hs, idx + 1,
                       SectionStore(d, lower(header), Block(ls, start, end)))

KeyTop == <<"t","o","p">>

KeyMain == <<"m","a","i","n">>

\* a slip: "top" is stored even when it is empty
WithTopAlways(d, top_text) == DictSet(d, KeyTop, top_text)

\* if top_text: sections["top"] = top_text
WithTop(d, top_text) == IF top_text # <<>> THEN DictSet(d, KeyTop, top_text) ELSE d

split_sections(t) ==
  LET ls == splitlines(t)
      hs == HeaderIdxs(ls)
  IN IF hs = <<>> THEN << <<KeyMain, t>> >>
     ELSE WithTop(SectionsFrom(ls, hs, 1, <<>>), Block(ls, 1, hs[1] - 1))

\* ------------------------------------------------------- extract_contact

\* the number of characters of class C from position p on
RECURSIVE RunFrom(_, _, _)
RunFrom(s, C, p) ==
  IF p <= Len(s) /\ s[p] \in C THEN 1 + RunFrom(s, C, p + 1) ELSE 0

Min(a, b) == IF a <= b THEN a ELSE b

\* re.finditer: the matches <<start, end>> (end exclusive) from position pos
\* on; MatchEnd(s, i) is the end of the match that starts at i, or 0
RECURSIVE FindIter(_, _, _)
FindIter(MatchEnd(_, _), s, pos) ==
  LET i == FirstIn(LAMBDA j : MatchEnd(s, j) > j, pos, Len(s))
  IN IF i = 0 THEN <<>>
     ELSE << <<i, MatchEnd(s, i)>> >> \o FindIter(MatchEnd, s, MatchEnd(s, i))

\* m.group() of a match
Group0(s, m) == SubSeq(s, m[1], m[2] - 1)

\* the first element of a sequence of positions that satisfies Ok, or 0
RECURSIVE FirstThat(_, _)
FirstThat(Ok(_), ps) ==
  IF ps = <<>> THEN 0
  ELSE IF Ok(ps[1]) THEN ps[1]
  ELSE FirstThat(Ok, Tail(ps))

\* [-.\s]
PhoneSep == {"-", "."} \cup Whitespace

\* [\d\-.\s]
PhoneTail == Digit \cup PhoneSep

\* [-.\s]? from p: the positions the match can go on from, the greedy first
OptSep(s, p) ==
  IF p <= Len(s) /\ s[p] \in PhoneSep THEN <<p + 1, p>> ELSE <<p>>

\* X? from p for a one-character X
OptChar(s, c, p) == IF p <= Len(s) /\ s[p] = c THEN <<p + 1, p>> ELSE <<p>>

\* \d{lo,n} from p, the longest first
RECURSIVE DigitsDown(_, _, _, _)
DigitsDown(s, p, lo, n) ==
  IF n < lo THEN <<>>
  ELSE (IF RunFrom(s, Digit, p) >= n THEN <<p + n>> ELSE <<>>)
         \o DigitsDown(s, p, lo, n - 1)

\* the positions after A then B, in the order the backtracking tries them
Then(ps, B(_)) == Flatten([n \in 1..Len(ps) |-> B(ps[n])])

\* (\+?\d{1,3}[-.\s]?)? from i
PhoneGroup1(s, i) ==
  Then(Then(OptChar(s, "+", i), LAMBDA p : DigitsDown(s, p, 1, 3)),
       LAMBDA p : OptSep(s, p)) \o <<i>>

\* (\(?\d{2,4}\)?[-.\s]?)? from i
PhoneGroup2(s, i) ==
  Then(Then(Then(OptChar(s, "(", i), LAMBDA p : DigitsDown(s, p, 2, 4)),
            LAMBDA p : OptChar(s, ")", p)),
       LAMBDA p : OptSep(s, p)) \o <<i>>

\* PHONE_RE matched at i: the first way through the two optional groups that
\* leaves 6 or more characters of [\d\-.\s], which then takes up to 15
PHONE_RE(s, i) ==
  LET starts == Then(PhoneGroup1(s, i), LAMBDA p : PhoneGroup2(s, p))
      p == FirstThat(LAMBDA q : RunFrom(s, PhoneTail, q) >= 6, starts)
  IN IF p = 0 THEN 0 ELSE p + Min(RunFrom(s, PhoneTail, p), 15)

\* re.sub(r"\D", "", candidate)
DigitsOf(s) == Keep(s, {i \in 1..Len(s) : s[i] \in Digit})

\* if 7 <= len(digits) <= 15
PhoneFilter(candidate) == 7 <= Len(DigitsOf(candidate)) /\ Len(DigitsOf(candidate)) <= 15

\* lines 144-150
PhoneCandidates(t) ==
  LET ms == FindIter(PHONE_RE, t, 1)
  IN {c \in {strip(Group0(t, ms[n])) : n \in 1..Len(ms)} : PhoneFilter(c)}

\* [\w\.-]
EmailChar == WordChar \cup {".", "-"}

\* the last "." of the run of [\w\.-] from p on that has a character of the
\* run before it and a word character after it, or 0
LastDomainDot(s, p) ==
  LET r == RunFrom(s, EmailChar, p)
      dots == {k \in (p + 1)..(p + r - 2) : s[k] = "." /\ s[k + 1] \in WordChar}
  IN IF dots = {} THEN 0 ELSE CHOOSE k \in dots : \A j \in dots : j <= k

\* EMAIL_RE matched at i: [\w\.-]+@[\w\.-]+\.\w+
EMAIL_RE(s, i) ==
  LET r == RunFrom(s, EmailChar, i)
      at == i + r
  IN IF r >= 1 /\ at <= Len(s) /\ s[at] = "@" /\ LastDomainDot(s, at + 1) > 0
       THEN LET k == LastDomainDot(s, at + 1) IN k + 1 + RunFrom(s, WordChar, k + 1)
       ELSE 0

\* list(dict.fromkeys(xs))
RECURSIVE Dedup(_)
Dedup(xs) ==
  IF xs = <<>> THEN <<>>
  ELSE LET init == Dedup(SubSeq(xs, 1, Len(xs) - 1))
           x == xs[Len(xs)]
       IN IF \E n \in 1..Len(init) : init[n] = x THEN init ELSE Append(init, x)

Lit_http == <<"h","t","t","p">>

Lit_scheme == <<":","/","/">>

Lit_www == <<"w","w","w",".">>

Lit_linkedin == <<"l","i","n","k","e","d","i","n",".","c","o","m","/">>

\* a literal from p: the position after it, or nothing
Literal(s, lit, p) == IF StartsAt(s, lit, p) THEN <<p + Len(lit)>> ELSE <<>>

\* LINKEDIN_RE matched at i: (https?://)?(www\.)?linkedin\.com/[\w\-/]+
LINKEDIN_RE(s, i) ==
  LET g1 == Then(Then(Literal(s, Lit_http, i), LAMBDA p : OptChar(s, "s", p)),
                 LAMBDA p : Literal(s, Lit_scheme, p)) \o <<i>>
      g2 == Then(g1, LAMBDA p : Literal(s, Lit_www, p) \o <<p>>)
      path == Then(g2, LAMBDA p : Literal(s, Lit_linkedin, p))
      p == FirstThat(LAMBDA q : RunFrom(s, WordChar \cup {"-", "/"}, q) >= 1, path)
  IN IF p = 0 THEN 0 ELSE p + RunFrom(s, WordChar \cup {"-", "/"}, p)

\* lines 140-160; re.findall of a pattern without groups gives the matches
extract_contact(t) ==
  LET es == FindIter(EMAIL_RE, t, 1)
      ls == FindIter(LINKEDIN_RE, t, 1)
  IN [emails |-> Dedup([n \in 1..Len(es) |-> Group0(t, es[n])]),
      phones |-> PhoneCandidates(t),
      linkedin |-> [n \in 1..Len(ls) |-> strip(Group0(t, ls[n]))]]

\* ----------------------------------------------------- extract_education

\* every pattern is a literal once the backslashes are read
EDU_KEYWORDS == <<
  <<"b","a","c","h","e","l","o","r">>,
  <<"m","a","s","t","e","r">>,
  <<"b",".","a",".">>,
  <<"b",".","s","c",".">>,
  <<"m",".","s","c",".">>,
  <<"p","h","d">>,
  <<"b",".","t","e","c","h">>,
  <<"m",".","t","e","c","h">>,
  <<"b","s">>,
  <<"m","s">>,
  <<"m","b","a">>,
  <<"a","s","s","o","c","i","a","t","e">>,
  <<"h","i","g","h"," ","s","c","h","o","o","l">>,
  <<"s","e","c","o","n","d","a","r","y"," ","s","c","h","o","o","l">> >>

\* any(re.search(k, low) for k in EDU_KEYWORDS)
EduMatch(line) ==
  LET low == lower(line)
  IN \E k \in 1..Len(EDU_KEYWORDS) : Contains(low, EDU_KEYWORDS[k])

\* (19|20)\d{2} matches at position i
YearAt(s, i) ==
  /\ i + 3 <= Len(s)
  /\ <<s[i], s[i + 1]>> \in {<<"1", "9">>, <<"2", "0">>}
  /\ s[i + 2] \in Digit
  /\ s[i + 3] \in Digit

\* re.search(r"(19|20)\d{2}", s): the match, or ""
YearSearch(s) ==
  LET i == FirstIn(LAMBDA j : YearAt(s, j), 1, Len(s))
  IN IF i = 0 THEN <<>> ELSE SubSeq(s, i, i + 3)

\* re.split(r",|-", s): the pieces between the separators, empty ones too
RECURSIVE SplitOn(_, _, _, _)
SplitOn(s, seps, i, cur) ==
  IF i > Len(s) THEN <<cur>>
  ELSE IF s[i] \in seps THEN <<cur>> \o SplitOn(s, seps, i + 1, <<>>)
  ELSE SplitOn(s, seps, i + 1, Append(cur, s[i]))

\* [p.strip() for p in re.split(r",|-", line) if p.strip()]
EduParts(line) ==
  LET ps == SplitOn(line, {",", "-"}, 1, <<>>)
      stripped == [n \in 1..Len(ps) |-> strip(ps[n])]
  IN Keep(stripped, {n \in 1..Len(ps) : stripped[n] # <<>>})

\* a slip: the last part is taken for the institution
EduInstitutionLast(parts) == IF Len(parts) > 1 THEN parts[Len(parts)] ELSE <<>>

\* institution = parts[1] if len(parts) > 1 else ""
EduInstitution(parts) == IF Len(parts) > 1 THEN parts[2] ELSE <<>>

\* lines 216-222
EduEntry(line) ==
  LET parts == EduParts(line)
  IN [degree |-> IF parts # <<>> THEN parts[1] ELSE strip(line),
      institution |-> EduInstitution(parts),
      year |-> YearSearch(line),
      raw |-> strip(line)]

\* the loop of lines 212-222 from line n on
RECURSIVE EduFrom(_, _)
EduFrom(ls, n) ==
  IF n > Len(ls) THEN <<>>
  ELSE IF EduMatch(ls[n]) THEN <<EduEntry(ls[n])>> \o EduFrom(ls, n + 1)
  ELSE EduFrom(ls, n + 1)

extract_education(section_text) == EduFrom(splitlines(section_text), 1)

\* ------------------------------------------------------ parse_experience

\* the month alternatives of DATE_RANGE_RE, in order: the name and its
\* optional ending; suffixGroup is the number of the group of the ending
MONTHS == <<
  [name |-> <<"j","a","n">>, suffix |-> <<"u","a","r","y">>, suffixGroup |-> 3],
  [name |-> <<"f","e","b">>, suffix |-> <<"r","u","a","r","y">>, suffixGroup |-> 4],
  [name |-> <<"m","a","r">>, suffix |-> <<"c","h">>, suffixGroup |-> 5],
  [name |-> <<"a","p","r">>, suffix |-> <<"i","l">>, suffixGroup |-> 6],
  [name |-> <<"m","a","y">>, suffix |-> <<>>, suffixGroup |-> 0],
  [name |-> <<"j","u","n">>, suffix |-> <<"e">>, suffixGroup |-> 7],
  [name |-> <<"j","u","l">>, suffix |-> <<"y">>, suffixGroup |-> 8],
  [name |-> <<"a","u","g">>, suffix |-> <<"u","s","t">>, suffixGroup |-> 9],
  [name |-> <<"s","e","p">>, suffix |-> <<"t","e","m","b","e","r">>, suffixGroup |-> 10],
  [name |-> <<"o","c","t">>, suffix |-> <<"o","b","e","r">>, suffixGroup |-> 11],
  [name |-> <<"n","o","v">>, suffix |-> <<"e","m","b","e","r">>, suffixGroup |-> 12],
  [name |-> <<"d","e","c">>, suffix |-> <<"e","m","b","e","r">>, suffixGroup |-> 13] >>

Lit_present == <<"p","r","e","s","e","n","t">>

\* the groups of DATE_RANGE_RE
DateGroups == 15

\* [\w\.\s,-]
DateFill == WordChar \cup Whitespace \cup {".", ",", "-"}

\* a literal at position i, re.IGNORECASE
StartsAtNoCase(s, lit, i) ==
  /\ i + Len(lit) - 1 <= Len(s)
  /\ \A k \in 1..Len(lit) : LowerChar(s[i + k - 1]) = lit[k]

\* the month alternative that matches at i (the names differ, so at most
\* one does), or 0
MonthAt(s, i) ==
  IF i + 2 > Len(s) THEN 0
  ELSE LET w == <<LowerChar(s[i]), LowerChar(s[i + 1]), LowerChar(s[i + 2])>>
           ms == {m \in 1..Len(MONTHS) : MONTHS[m].name = w}
       IN IF ms = {} THEN 0 ELSE CHOOSE m \in ms : TRUE

\* [\w\.\s,-]*\d{4} from p: the end of the longest match, or 0
FillThenYear(s, p) ==
  LET r == RunFrom(s, DateFill, p)
      ends == {e \in (p + 4)..(p + r) : \A k \in 1..4 : s[e - k] \in Digit}
  IN IF ends = {} THEN 0 ELSE CHOOSE e \in ends : \A f \in ends : f <= e

\* the month alternative matches at i with the optional ending of the name
LongMonthAt(s, i) ==
  LET m == MonthAt(s, i)
  IN m # 0 /\ MONTHS[m].suffix # <<>> /\ StartsAtNoCase(s, MONTHS[m].suffix, i + 3)

\* the length of the month name matched at i
MonthLenAt(s, i) ==
  IF LongMonthAt(s, i) THEN 3 + Len(MONTHS[MonthAt(s, i)].suffix) ELSE 3

\* the end of the first alternative (the month phrase) matched at i, or 0
PhraseEnd(s, i) == IF MonthAt(s, i) = 0 THEN 0 ELSE FillThenYear(s, i + MonthLenAt(s, i))

\* DATE_RANGE_RE matched at i: the end of the match, or 0
DATE_RANGE_RE(s, i) ==
  IF PhraseEnd(s, i) # 0 THEN PhraseEnd(s, i)
  ELSE IF YearAt(s, i) THEN i + 4
  ELSE IF StartsAtNoCase(s, Lit_present, i) THEN i + Len(Lit_present)
  ELSE 0

\* the 15 groups of the match of DATE_RANGE_RE at i
DateGroupsAt(s, i) ==
  LET e == PhraseEnd(s, i)
  IN [k \in 1..DateGroups |->
        IF e # 0
          THEN (IF k = 1 THEN SubSeq(s, i, e - 1)
                ELSE IF k = 2 THEN SubSeq(s, i, i + MonthLenAt(s, i) - 1)
                ELSE IF LongMonthAt(s, i) /\ k = MONTHS[MonthAt(s, i)].suffixGroup
                  THEN SubSeq(s, i + 3, i + MonthLenAt(s, i) - 1)
                ELSE <<>>)
        ELSE IF YearAt(s, i)
          THEN (IF k = 14 THEN SubSeq(s, i, i + 3)
                ELSE IF k = 15 THEN SubSeq(s, i, i + 1)
                ELSE <<>>)
        ELSE <<>>]

\* DATE_RANGE_RE.search(line)
DateSearch(line) == FirstIn(LAMBDA j : DATE_RANGE_RE(line, j) > j, 1, Len(line)) # 0

\* DATE_RANGE_RE.findall(line): the tuple of groups of every match
DateFindAll(line) ==
  LET ms == FindIter(DATE_RANGE_RE, line, 1)
  IN [n \in 1..Len(ms) |-> DateGroupsAt(line, ms[n][1])]

\* re.search(r"(19|20)\d{2}|present", part, re.IGNORECASE)
HasYearOrPresent(part) ==
  \/ YearSearch(part) # <<>>
  \/ \E i \in 1..Len(part) : StartsAtNoCase(part, Lit_present, i)

\* lines 261-267: the groups of the matches that hold a year or "present"
DateTokens(title_company) ==
  LET groups == Flatten(DateFindAll(title_company))
  IN Keep(groups, {k \in 1..Len(groups) : HasYearOrPresent(groups[k])})

\* a slip: the lines that are kept are not trimmed
NonEmptyLinesUntrimmed(section_text) ==
  LET ls == splitlines(section_text)
  IN Keep(ls, {n \in 1..Len(ls) : strip(ls[n]) # <<>>})

\* [l.strip() for l in section_text.splitlines() if l.strip()]
NonEmptyLines(section_text) ==
  LET ls == splitlines(section_text)
      stripped == [n \in 1..Len(ls) |-> strip(ls[n])]
  IN Keep(stripped, {n \in 1..Len(ls) : stripped[n] # <<>>})

\* a slip: the entry still open at the end of the lines is not appended
CloseEntryForgotten(es, cur) == es

\* if cur_entry: entries.append(cur_entry); cur is <<>> for None
CloseEntry(es, cur) == es \o cur

\* line 248
NewDatedEntry(line) ==
  [title_company |-> line, dates |-> DateFindAll(line), details |-> <<>>]

\* line 253
NewUndatedEntry(line) == [title_company |-> line, dates |-> <<>>, details |-> <<>>]

\* lines 260-268 for one entry
WithDateTokens(e) ==
  [title_company |-> e.title_company,
   dates |-> e.dates,
   details |-> e.details,
   date_tokens |-> DateTokens(e.title_company)]

\* the loop of lines 241-255 from the lines ls on, then lines 256-257
RECURSIVE ExperienceLoop(_, _, _)
ExperienceLoop(ls, cur, es) ==
  IF ls = <<>> THEN CloseEntry(es, cur)
  ELSE IF DateSearch(Head(ls))
    THEN ExperienceLoop(Tail(ls), <<NewDatedEntry(Head(ls))>>, es \o cur)
  ELSE IF cur = <<>>
    THEN ExperienceLoop(Tail(ls), <<NewUndatedEntry(Head(ls))>>, es)
  ELSE ExperienceLoop(Tail(ls),
                      <<[cur[1] EXCEPT !.details = Append(@, Head(ls))]>>, es)

parse_experience(section_text) ==
  LET es == ExperienceLoop(NonEmptyLines(section_text), <<>>, <<>>)
  IN [n \in 1..Len(es) |-> WithDateTokens(es[n])]

\* ------------------------------------------------------- extract_skills

DEFAULT_SKILLS == <<
  <<"p","y","t","h","o","n">>,
  <<"j","a","v","a">>,
  <<"c","+","+">>,
  <<"c","#">>,
  <<"j","a","v","a","s","c","r","i","p","t">>,
  <<"r","e","a","c","t">>,
  <<"n","o","d","e",".","j","s">>,
  <<"d","j","a","n","g","o">>,
  <<"f","l","a","s","k">>,
  <<"s","q","l">>,
  <<"p","o","s","t","g","r","e","s","q","l">>,
  <<"m","y","s","q","l">>,
  <<"a","w","s">>,
  <<"a","z","u","r","e">>,
  <<"g","c","p">>,
  <<"d","o","c","k","e","r">>,
  <<"k","u","b","e","r","n","e","t","e","s">>,
  <<"g","i","t">>,
  <<"l","i","n","u","x">>,
  <<"n","l","p">>,
  <<"s","p","a","C","y">>,
  <<"p","a","n","d","a","s">>,
  <<"n","u","m","p","y">>,
  <<"t","e","n","s","o","r","f","l","o","w">>,
  <<"p","y","t","o","r","c","h">>,
  <<"s","c","i","k","i","t","-","l","e","a","r","n">>,
  <<"e","x","c","e","l">>,
  <<"t","a","b","l","e","a","u">>,
  <<"p","o","w","e","r"," ","b","i">> >>

\* the characters of the lowercased skills, by code point
SkillChars ==
  <<" ", "#", "+", "-", ".",
    "a","b","c","d","e","f","g","h","i","j","k","l","m","n","o","p","q","r","s","t","u","v","w","x","y","z">>

Ord(c) == CHOOSE i \in 1..Len(SkillChars) : SkillChars[i] = c

\* a < b for str: the first difference decides, a proper prefix is less
StrLess(a, b) ==
  \E i \in 1..Len(b) :
    /\ \A j \in 1..(i - 1) : j <= Len(a) /\ a[j] = b[j]
    /\ i > Len(a) \/ Ord(a[i]) < Ord(b[i])

\* sorted(list(found))
sorted(found) ==
  [n \in 1..Cardinality(found) |->
     CHOOSE x \in found : Cardinality({y \in found : StrLess(y, x)}) = n - 1]

\* nlp is None where spaCy or its model is not installed: the PhraseMatcher
\* pass of lines 181-189 is skipped and the substring pass alone finds skills
extract_skills(t) ==
  LET text_lower == lower(t)
  IN sorted({lower(DEFAULT_SKILLS[n]) :
               n \in {m \in 1..Len(DEFAULT_SKILLS) :
                        Contains(text_lower, lower(DEFAULT_SKILLS[m]))}})

\* ----------------------------------------------- parse_resume_from_text

Lit_skill == <<"s","k","i","l","l">>

Lit_educat == <<"e","d","u","c","a","t">>

Lit_experi == <<"e","x","p","e","r","i">>

Lit_summary == <<"s","u","m","m","a","r","y">>

Lit_objective == <<"o","b","j","e","c","t","i","v","e">>

\* x = ""; for k in sections: if Has(k): x = sections[k]; break
FirstSection(d, Has(_)) ==
  LET HasAt(i) == Has(d[i][1])
      i == FirstIn(HasAt, 1, Len(d))
  IN IF i = 0 THEN <<>> ELSE d[i][2]

HasSkill(k) == Contains(k, Lit_skill)

HasEducat(k) == Contains(k, Lit_educat)

HasExperi(k) == Contains(k, Lit_experi)

HasSummary(k) == Contains(k, Lit_summary) \/ Contains(k, Lit_objective)

\* lines 281-287: the skills section, or the whole text if it is empty
SkillsText(d, t) ==
  LET skills_text == FirstSection(d, HasSkill)
  IN IF skills_text = <<>> THEN t ELSE skills_text

\* a slip: the extractor runs on the empty section as well
EducationOfAlways(d) ==
  [value |-> extract_education(FirstSection(d, HasEducat)),
   calls |-> {"extract_education"}]

\* lines 292-297: the extractor runs on a non-empty section only
EducationOf(d) ==
  LET education_section == FirstSection(d, HasEducat)
  IN IF education_section # <<>>
       THEN [value |-> extract_education(education_section),
             calls |-> {"extract_education"}]
       ELSE [value |-> <<>>, calls |-> {}]

\* lines 300-305
ExperienceOf(d) ==
  LET experience_section == FirstSection(d, HasExperi)
  IN IF experience_section # <<>>
       THEN [value |-> parse_experience(experience_section),
             calls |-> {"parse_experience"}]
       ELSE [value |-> <<>>, calls |-> {}]

\* a slip: all of "top" is taken, not its first 3 lines
TopLinesAll(top) == join(NL, splitlines(top))

SummaryLines == 3

\* "\n".join(sections["top"].splitlines()[:3])
TopLines(top) ==
  LET ls == splitlines(top)
  IN join(NL, SubSeq(ls, 1, Min(SummaryLines, Len(ls))))

\* lines 308-315
SummaryOf(d) ==
  LET found == FirstSection(d, HasSummary)
  IN IF found = <<>> /\ KeyTop \in DictKeys(d) THEN TopLines(DictGet(d, KeyTop))
     ELSE found

\* --------------------------------------------------------------- inputs

MaxCleanLen == 5

CleanAlphabet == {"a", " ", "\t", "\n", "\r", "SOH"}

CleanInputs == SeqsUpTo(CleanAlphabet, MaxCleanLen)

\* the paragraphs or page texts a document is made of (lines 57 and 68
\* join them with "\n")
MaxChunks == 4

SplitChunks == {
  <<"S","k","i","l","l","s">>,
  <<" ","S","K","I","L","L","S"," ">>,
  <<"T","e","c","h","n","i","c","a","l"," ","S","k","i","l","l","s">>,
  <<"E","d","u","c","a","t","i","o","n">>,
  <<"s","k","i","l","l","s","e","t">>,
  <<" ","y","\r","z"," ">>,
  <<>> }

SplitInputs == {join(NL, cs) : cs \in SeqsUpTo(SplitChunks, MaxChunks)}

\* the pieces a text with phone numbers is made of
MaxPieces == 3

ContactPieces == {
  <<"5","5","5","1","2","3","4">>,
  <<"5","5","5","1","2","3">>,
  <<"a">>,
  <<" ">>,
  <<"\n">>,
  <<"-","-","-","-","-","-","-","-","-","-">>,
  <<"+","1"," ">>,
  <<"(","5","5","5",")"," ">>,
  <<"j","@","x",".","i","o">>,
  <<"l","i","n","k","e","d","i","n",".","c","o","m","/","i","n","/","j">> }

ContactInputs == {Flatten(ps) : ps \in SeqsUpTo(ContactPieces, MaxPieces)}

\* the lines an education section is made of
MaxEduLines == 4

EduChunks == {
  <<"B","a","c","h","e","l","o","r"," ","o","f"," ","S","c","i","e","n","c","e",","," ","U","n","i","v","e","r","s","i","t","y"," ","X",","," ","2","0","1","9">>,
  <<"M","B","A"," ","-"," ","S","t","a","n","f","o","r","d">>,
  <<"f","o","o",","," ","2","0","2","0">>,
  <<" ",",","-"," ","p","h","d">>,
  <<"j","o","b","s"," ","1","2","0","1","9","9">>,
  <<>> }

EduInputs == {join(NL, cs) : cs \in SeqsUpTo(EduChunks, MaxEduLines)}

\* the chunks an experience section is made of; the last chunk is a blank
\* line and a dated line with a month
MaxExpLines == 4

ExpChunks == {
  <<"E","n","g","i","n","e","e","r",","," ","A","c","m","e"," ","(","2","0","2","0","-","P","r","e","s","e","n","t",")">>,
  <<"-"," ","d","i","d"," ","X">>,
  <<"I","n","t","e","r","n",","," ","B","e","t","a"," ","(","2","0","1","8","-","2","0","1","9",")">>,
  <<"-"," ","d","i","d"," ","Y">>,
  <<" ","\n"," ","D","e","v",","," ","J","a","n"," ","2","0","2","0"," ","-"," ","p","r","e","s","e","n","t">> }

ExpInputs == {join(NL, cs) : cs \in SeqsUpTo(ExpChunks, MaxExpLines)}

\* the chunks a resume is made of: a block of four contact lines, five
\* headings, and two lines that every extractor finds something in
MaxResumeChunks == 3

ResumeChunks == {
  <<"J","o","h","n","\n","j","@","x",".","i","o","\n","5","5","5","-","1","2","3","4","\n","N","Y">>,
  <<"S","u","m","m","a","r","y">>,
  <<"O","b","j","e","c","t","i","v","e">>,
  <<"E","d","u","c","a","t","i","o","n">>,
  <<"E","x","p","e","r","i","e","n","c","e">>,
  <<"S","k","i","l","l","s">>,
  <<"B","S",","," ","M","I","T",","," ","2","0","1","9","\n","-"," ","d","i","d"," ","p","y","t","h","o","n">> }

ResumeInputs == {join(NL, cs) : cs \in SeqsUpTo(ResumeChunks, MaxResumeChunks)}

\* ---------------------------------------------------------------- state

Idle ==
  /\ cleaned = None /\ recleaned = None /\ sections = None /\ contact = None
  /\ education = None /\ lines = None /\ cur_entry = None /\ entries = None
  /\ record = None /\ invoked = {} /\ skills = None /\ summary = None

\* ------------------------------------------------- clean_text, applied

InitClean == pc = "start" /\ text \in CleanInputs /\ Idle

CleanText ==
  /\ pc = "start"
  /\ cleaned' = clean_text(text)
  /\ pc' = "cleaned"
  /\ UNCHANGED <<text, recleaned, sections, contact, education, lines, cur_entry,
                 entries, record, invoked, skills, summary>>

CleanAgain ==
  /\ pc = "cleaned"
  /\ recleaned' = clean_text(cleaned)
  /\ pc' = "recleaned"
  /\ UNCHANGED <<text, cleaned, sections, contact, education, lines, cur_entry,
                 entries, record, invoked, skills, summary>>

NextClean == CleanText \/ CleanAgain

SpecClean == InitClean /\ [][NextClean]_vars

\* ---------------------------------------------- split_sections, applied

InitSplit == pc = "start" /\ text \in SplitInputs /\ Idle

SplitSections ==
  /\ pc = "start"
  /\ sections' = split_sections(text)
  /\ pc' = "split"
  /\ UNCHANGED <<text, cleaned, recleaned, contact, education, lines, cur_entry,
                 entries, record, invoked, skills, summary>>

NextSplit == SplitSections

SpecSplit == InitSplit /\ [][NextSplit]_vars

\* ------------------------------------------------ split_sections, claims

\* a is a subsequence of b under the relation Same(x, y), matched greedily
RECURSIVE IsSubseqBy(_, _, _)
IsSubseqBy(Same(_, _), a, b) ==
  IF a = <<>> THEN TRUE
  ELSE IF b = <<>> THEN FALSE
  ELSE IF Same(a[1], b[1]) THEN IsSubseqBy(Same, Tail(a), Tail(b))
  ELSE IsSubseqBy(Same, a, Tail(b))

InLines == splitlines(text)

HeadersOf(ls) == {i \in 1..Len(ls) : IsHeader(ls[i])}

KeysOf(ls) == [i \in 1..Len(ls) |-> lower(strip(ls[i]))]

\* the headers whose segment is in the mapping: no later header has their text
LastOfName(H, key) == {i \in H : \A j \in H : j > i => key[j] # key[i]}

\* the lines of a body, each with its place in the body
BodyLines(body) ==
  LET ls == splitlines(body)
  IN [j \in 1..Len(ls) |-> [line |-> ls[j], first |-> j = 1, last |-> j = Len(ls)]]

\* the body lines of the mapping d in document order: the text before the
\* first header ("top", or "main" when there is no header), then the stored
\* segments by the position of their header
DocOrderLines(d, ls, H, key) ==
  LET hs == Keep([i \in 1..Len(ls) |-> i], LastOfName(H, key))
      pre == IF KeyTop \in DictKeys(d) THEN BodyLines(DictGet(d, KeyTop))
             ELSE IF KeyMain \in DictKeys(d) THEN BodyLines(DictGet(d, KeyMain))
             ELSE <<>>
  IN pre \o Flatten([n \in 1..Len(hs) |-> BodyLines(DictGet(d, key[hs[n]]))])

NoHeaderIn(es) == \A n \in 1..Len(es) : ~IsHeader(es[n].line)

SameLine(e, l) == e.line = l

\* the body line is the input line, but for the whitespace that the trim of
\* its body took from the body's first and last line
SameLineTrimmed(e, l) ==
  \/ e.line = l
  \/ e.first /\ e.line = lstrip(l)
  \/ e.last /\ e.line = rstrip(l)
  \/ e.first /\ e.last /\ e.line = strip(l)

\* C3 as claimed: the lines of the segment bodies, in document order, are a
\* subsequence of the input's lines (so no input line is in two bodies), and
\* no header line is in a body.
C3_BodiesAreInputLines ==
  pc = "split" =>
    LET ls == InLines
        es == DocOrderLines(sections, ls, HeadersOf(ls), KeysOf(ls))
    IN IsSubseqBy(SameLine, es, ls) /\ NoHeaderIn(es)

\* C3 amended: the lines of the segment bodies, in document order, are a
\* subsequence of the input's lines up to the whitespace trimmed from the
\* first and the last line of each body; no header line is in a body.
C3_BodiesAreTrimmedInputLines ==
  pc = "split" =>
    LET ls == InLines
        es == DocOrderLines(sections, ls, HeadersOf(ls), KeysOf(ls))
    IN IsSubseqBy(SameLineTrimmed, es, ls) /\ NoHeaderIn(es)

\* C3 witness: two segments after a non-empty top, a body of two lines
\* having lost whitespace to the trim
C3_Witness ==
  /\ pc = "split"
  /\ KeyTop \in DictKeys(sections)
  /\ LET ls == InLines
         H == HeadersOf(ls)
         key == KeysOf(ls)
     IN /\ Cardinality(LastOfName(H, key)) >= 2
        /\ \E i \in LastOfName(H, key) : Len(BodyLines(DictGet(sections, key[i]))) >= 2
        /\ ~IsSubseqBy(SameLine, DocOrderLines(sections, ls, H, key), ls)

\* the least element of a non-empty set of line numbers
Least(S) == CHOOSE i \in S : \A j \in S : i <= j

\* C4: without a header line the mapping is {"main": text}; with one, every
\* key is the lowercased trimmed text of a header line or "top", "main" is no
\* key, and "top" is a key exactly when the text before the first header is
\* non-empty after trimming.
C4_Shapes ==
  pc = "split" =>
    LET ls == InLines
        H == HeadersOf(ls)
        key == KeysOf(ls)
    IN IF H = {}
         THEN sections = << <<KeyMain, text>> >>
         ELSE /\ DictKeys(sections) \subseteq {key[i] : i \in H} \cup {KeyTop}
              /\ KeyMain \notin DictKeys(sections)
              /\ KeyTop \in DictKeys(sections)
                   <=> strip(join(NL, SubSeq(ls, 1, Least(H) - 1))) # <<>>

\* C4 witness: a header that is not the first line, with only blank text
\* before it, so that "top" is left out
C4_Witness ==
  /\ pc = "split"
  /\ HeadersOf(InLines) # {}
  /\ 1 \notin HeadersOf(InLines)
  /\ KeyTop \notin DictKeys(sections)

\* the segment that follows header line i
SegmentAfter(ls, H, i) ==
  LET later == {j \in H : j > i}
      end == IF later = {} THEN Len(ls) ELSE Least(later) - 1
  IN strip(join(NL, SubSeq(ls, i + 1, end)))

\* C9: header lines with the same lowercased trimmed text share one entry,
\* whose body is the segment after the last of them; every header text is a
\* key, so headers of different text have different entries.
C9_LastWins ==
  pc = "split" =>
    LET ls == InLines
        H == HeadersOf(ls)
        key == KeysOf(ls)
    IN /\ \A i \in H :
            /\ Cardinality({n \in 1..Len(sections) : sections[n][1] = key[i]}) = 1
            /\ i \in LastOfName(H, key) => DictGet(sections, key[i]) = SegmentAfter(ls, H, i)
       /\ H # {} =>
            Cardinality(DictKeys(sections) \ {KeyTop}) = Cardinality({key[i] : i \in H})

\* C9 witness: two headers of the same text with different segments, and a
\* third header of another text that matches the same pattern
C9_Witness ==
  /\ pc = "split"
  /\ LET ls == InLines
         H == HeadersOf(ls)
         key == KeysOf(ls)
     IN /\ \E i, j \in H :
             /\ i < j /\ key[i] = key[j] /\ j \in LastOfName(H, key)
             /\ SegmentAfter(ls, H, i) # SegmentAfter(ls, H, j)
             /\ SegmentAfter(ls, H, i) # <<>>
        /\ \E i, j \in H :
             /\ key[i] # key[j]
             /\ HeaderSearch(SECTION_HEADERS[5], key[i])
             /\ HeaderSearch(SECTION_HEADERS[5], key[j])

\* --------------------------------------------- extract_contact, applied

InitContact == pc = "start" /\ text \in ContactInputs /\ Idle

ExtractContact ==
  /\ pc = "start"
  /\ contact' = extract_contact(text)
  /\ pc' = "contact"
  /\ UNCHANGED <<text, cleaned, recleaned, sections, education, lines, cur_entry,
                 entries, record, invoked, skills, summary>>

NextContact == ExtractContact

SpecContact == InitContact /\ [][NextContact]_vars

\* the runs of digits of s that no digit precedes or follows, as <<first, last>>
DigitRuns(s) ==
  {r \in (1..Len(s)) \X (1..Len(s)) :
     /\ r[1] <= r[2]
     /\ \A k \in r[1]..r[2] : s[k] \in Digit
     /\ (r[1] = 1 \/ s[r[1] - 1] \notin Digit)
     /\ (r[2] = Len(s) \/ s[r[2] + 1] \notin Digit)}

\* C5: a phone candidate is kept only with 7 to 15 digits; a run of exactly
\* 6 digits in the text is never returned as a candidate, and a run of
\* exactly 7 digits is returned (a returned candidate holds it).
C5_PhoneBoundary ==
  pc = "contact" =>
    /\ \A c \in contact.phones : Len(DigitsOf(c)) \in 7..15
    /\ \A r \in DigitRuns(text) :
         LET run == SubSeq(text, r[1], r[2])
         IN /\ Len(run) = 6 => run \notin contact.phones
            /\ Len(run) = 7 => \E c \in contact.phones : Contains(c, run)

\* what does hold: the filter, and the two runs when letters or the ends of
\* the text enclose them
C5_FilterAndEnclosedRuns ==
  pc = "contact" =>
    /\ \A c \in contact.phones : Len(DigitsOf(c)) \in 7..15
    /\ \A r \in DigitRuns(text) :
         LET run == SubSeq(text, r[1], r[2])
             enclosed == /\ (r[1] = 1 \/ text[r[1] - 1] \in Lower)
                         /\ (r[2] = Len(text) \/ text[r[2] + 1] \in Lower)
         IN /\ Len(run) = 6 => run \notin contact.phones
            /\ Len(run) = 7 /\ enclosed => run \in contact.phones

\* ------------------------------------------- extract_education, applied

InitEdu == pc = "start" /\ text \in EduInputs /\ Idle

ExtractEducation ==
  /\ pc = "start"
  /\ education' = extract_education(text)
  /\ pc' = "education"
  /\ UNCHANGED <<text, cleaned, recleaned, sections, contact, lines, cur_entry,
                 entries, record, invoked, skills, summary>>

NextEdu == ExtractEducation

SpecEdu == InitEdu /\ [][NextEdu]_vars

\* the n-th least element of a set of numbers
NthOf(S, n) == CHOOSE i \in S : Cardinality({j \in S : j < i}) = n - 1

\* the lines (by number) in which a degree keyword occurs, case ignored
KeywordLines(ls) ==
  {n \in 1..Len(ls) :
     \E k \in 1..Len(EDU_KEYWORDS) :
       \E i \in 1..Len(ls[n]) : StartsAt(lower(ls[n]), EDU_KEYWORDS[k], i)}

\* the trimmed text between position a (0, or a comma or hyphen) and the next
\* comma or hyphen of the line
FieldAfter(line, a) ==
  LET seps == {i \in (a + 1)..Len(line) : line[i] \in {",", "-"}}
      b == IF seps = {} THEN Len(line) + 1 ELSE Least(seps)
  IN strip(SubSeq(line, a + 1, b - 1))

\* the n-th trimmed non-empty part of the line split on commas and hyphens,
\* or "" when there are fewer
NthField(line, n) ==
  LET starts == {a \in 0..Len(line) :
                   /\ (a = 0 \/ line[a] \in {",", "-"})
                   /\ FieldAfter(line, a) # <<>>}
  IN IF Cardinality(starts) < n THEN <<>> ELSE FieldAfter(line, NthOf(starts, n))

\* the first four digits in a row of the line that begin with 19 or 20, or ""
FirstYear(line) ==
  LET ys == {i \in 1..(Len(line) - 3) :
               /\ \A k \in 0..3 : line[i + k] \in Digit
               /\ \/ line[i] = "1" /\ line[i + 1] = "9"
                  \/ line[i] = "2" /\ line[i + 1] = "0"}
  IN IF ys = {} THEN <<>> ELSE SubSeq(line, Least(ys), Least(ys) + 3)

ExampleEduLine ==
  <<"B","a","c","h","e","l","o","r"," ","o","f"," ","S","c","i","e","n","c","e",","," ","U","n","i","v","e","r","s","i","t","y"," ","X",","," ","2","0","1","9">>

\* C6: one entry for each line that matches a degree keyword and none for
\* any other line, in document order; degree is the first trimmed non-empty
\* part of the line split on commas or hyphens, institution the second (or
\* ""), year the first four digits beginning with 19 or 20 (or "").  The
\* line "Bachelor of Science, University X, 2019" gives "Bachelor of
\* Science", "University X", "2019".
C6_OneEntryPerKeywordLine ==
  pc = "education" =>
    LET ls == splitlines(text)
        M == KeywordLines(ls)
    IN /\ Len(education) = Cardinality(M)
       /\ \A n \in 1..Len(education) :
            LET line == ls[NthOf(M, n)]
            IN /\ education[n].raw = strip(line)
               /\ education[n].degree = NthField(line, 1)
               /\ education[n].institution = NthField(line, 2)
               /\ education[n].year = FirstYear(line)
       /\ text = ExampleEduLine =>
            /\ Len(education) = 1
            /\ education[1].degree =
                 <<"B","a","c","h","e","l","o","r"," ","o","f"," ","S","c","i","e","n","c","e">>
            /\ education[1].institution = <<"U","n","i","v","e","r","s","i","t","y"," ","X">>
            /\ education[1].year = <<"2","0","1","9">>

\* C6 witness: two entries with a skipped line that holds a year between
\* their lines, the first entry being that of the example line
C6_Witness ==
  /\ pc = "education"
  /\ Len(education) = 2
  /\ education[1].raw = ExampleEduLine
  /\ education[2].year = <<>>
  /\ LET ls == splitlines(text)
     IN /\ Len(ls) = 3
        /\ 2 \notin KeywordLines(ls)
        /\ FirstYear(ls[2]) # <<>>

\* -------------------------------------------- parse_experience, stepped

\* lines holds the lines the loop has still to read; cur_entry is <<>> for
\* None and <<entry>> otherwise
InitExp == pc = "start" /\ text \in ExpInputs /\ Idle

\* lines 238-240
ExpStart ==
  /\ pc = "start"
  /\ lines' = NonEmptyLines(text)
  /\ cur_entry' = <<>>
  /\ entries' = <<>>
  /\ pc' = "loop"
  /\ UNCHANGED <<text, cleaned, recleaned, sections, contact, education, record, invoked,
                 skills, summary>>

\* lines 243-248: a line with a date closes the open entry and opens one
ExpDateLine ==
  /\ pc = "loop"
  /\ lines # <<>>
  /\ DateSearch(Head(lines))
  /\ entries' = entries \o cur_entry
  /\ cur_entry' = <<NewDatedEntry(Head(lines))>>
  /\ lines' = Tail(lines)
  /\ UNCHANGED <<pc, text, cleaned, recleaned, sections, contact, education, record,
                 invoked, skills, summary>>

\* lines 251-253: a first line without a date opens an entry
ExpTitleLine ==
  /\ pc = "loop"
  /\ lines # <<>>
  /\ ~DateSearch(Head(lines))
  /\ cur_entry = <<>>
  /\ cur_entry' = <<NewUndatedEntry(Head(lines))>>
  /\ lines' = Tail(lines)
  /\ UNCHANGED <<pc, text, cleaned, recleaned, sections, contact, education, entries,
                 record, invoked, skills, summary>>

\* lines 254-255: a later line without a date is a detail of the open entry
ExpDetailLine ==
  /\ pc = "loop"
  /\ lines # <<>>
  /\ ~DateSearch(Head(lines))
  /\ cur_entry # <<>>
  /\ cur_entry' = <<[cur_entry[1] EXCEPT !.details = Append(@, Head(lines))]>>
  /\ lines' = Tail(lines)
  /\ UNCHANGED <<pc, text, cleaned, recleaned, sections, contact, education, entries,
                 record, invoked, skills, summary>>

\* lines 256-257
ExpClose ==
  /\ pc = "loop"
  /\ lines = <<>>
  /\ entries' = CloseEntry(entries, cur_entry)
  /\ pc' = "post"
  /\ UNCHANGED <<text, cleaned, recleaned, sections, contact, education, lines,
                 cur_entry, record, invoked, skills, summary>>

\* lines 259-269
ExpPost ==
  /\ pc = "post"
  /\ entries' = [n \in 1..Len(entries) |-> WithDateTokens(entries[n])]
  /\ pc' = "done"
  /\ UNCHANGED <<text, cleaned, recleaned, sections, contact, education, lines,
                 cur_entry, record, invoked, skills, summary>>

NextExp ==
  \/ ExpStart
  \/ ExpDateLine
  \/ ExpTitleLine
  \/ ExpDetailLine
  \/ ExpClose
  \/ ExpPost

SpecExp == InitExp /\ [][NextExp]_vars

\* a date token begins at position i of the line: a month name that a year
\* of four digits follows after word characters, whitespace, ".", "," and
\* "-" only; a year 19xx or 20xx; the word "present" in any case
DateTokenAt(line, i) ==
  \/ /\ i + 2 <= Len(line)
     /\ \E m \in 1..Len(MONTHS) : lower(SubSeq(line, i, i + 2)) = MONTHS[m].name
     /\ \E e \in (i + 3)..(Len(line) - 3) :
          /\ \A k \in 0..3 : line[e + k] \in Digit
          /\ \A k \in (i + 3)..(e - 1) : line[k] \in DateFill
  \/ /\ i + 3 <= Len(line)
     /\ SubSeq(line, i, i + 1) \in {<<"1", "9">>, <<"2", "0">>}
     /\ line[i + 2] \in Digit /\ line[i + 3] \in Digit
  \/ i + 6 <= Len(line) /\ lower(SubSeq(line, i, i + 6)) = Lit_present

HasDateToken(line) == \E i \in 1..Len(line) : DateTokenAt(line, i)

\* the non-empty trimmed lines of the input
TrimmedLines ==
  LET ls == splitlines(text)
  IN Keep([n \in 1..Len(ls) |-> strip(ls[n])], {n \in 1..Len(ls) : strip(ls[n]) # <<>>})

\* the lines that open an entry: those with a date token, and the first line
EntryStarts(ls) == {n \in 1..Len(ls) : n = 1 \/ HasDateToken(ls[n])}

ExampleExpText ==
  join(NL, << <<"E","n","g","i","n","e","e","r",","," ","A","c","m","e"," ","(","2","0","2","0","-","P","r","e","s","e","n","t",")">>,
              <<"-"," ","d","i","d"," ","X">>,
              <<"I","n","t","e","r","n",","," ","B","e","t","a"," ","(","2","0","1","8","-","2","0","1","9",")">>,
              <<"-"," ","d","i","d"," ","Y">> >>)

\* C1: every line with a date token closes the open entry and opens one with
\* that line as title_company and no details; a line without one opens an
\* entry if none is open and is a detail of the open entry otherwise; the
\* open entry is closed at the end.  So there are as many entries as lines
\* with a date token, plus one if the first line has none, and the example
\* gives 2 entries with details ["- did X"] and ["- did Y"].
C1_EntriesFollowDateLines ==
  /\ pc \in {"post", "done"} =>
       LET ls == TrimmedLines
           S == EntryStarts(ls)
           dated == {n \in 1..Len(ls) : HasDateToken(ls[n])}
       IN /\ Len(entries) =
               Cardinality(dated) + (IF ls # <<>> /\ 1 \notin dated THEN 1 ELSE 0)
          /\ Len(entries) = Cardinality(S)
          /\ \A k \in 1..Len(entries) :
               LET a == NthOf(S, k)
                   b == IF k < Cardinality(S) THEN NthOf(S, k + 1) - 1 ELSE Len(ls)
               IN /\ entries[k].title_company = ls[a]
                  /\ entries[k].details = SubSeq(ls, a + 1, b)
          /\ text = ExampleExpText =>
               /\ Len(entries) = 2
               /\ entries[1].details = << <<"-"," ","d","i","d"," ","X">> >>
               /\ entries[2].details = << <<"-"," ","d","i","d"," ","Y">> >>
  /\ pc = "loop" =>
       \* an entry is open exactly when a line has been read
       /\ cur_entry = <<>> <=> Len(lines) = Len(TrimmedLines)
       /\ cur_entry # <<>> /\ cur_entry[1].details # <<>> =>
            ~HasDateToken(cur_entry[1].details[Len(cur_entry[1].details)])

\* C1 witness: the example has been parsed
C1_Witness ==
  /\ pc = "done"
  /\ text = ExampleExpText
  /\ Len(entries) = 2

\* the date tokens of a line in order of appearance: the matches of
\* DATE_RANGE_RE, each a month-and-year phrase, a year or "present"
TokensOf(line) ==
  LET ms == FindIter(DATE_RANGE_RE, line, 1)
  IN [n \in 1..Len(ms) |-> Group0(line, ms[n])]

\* C10: after the post-pass date_tokens holds, in order of appearance, every
\* date token of the entry's title_company (each month-and-year phrase, each
\* year, each "present") and nothing from the details; it is empty when
\* title_company has no date token.
C10_DateTokensOfTitle ==
  pc = "done" =>
    \A k \in 1..Len(entries) :
      /\ entries[k].date_tokens = TokensOf(entries[k].title_company)
      /\ ~HasDateToken(entries[k].title_company) => entries[k].date_tokens = <<>>

\* what does hold of date_tokens: the month-and-year phrases that hold a year
\* 19xx or 20xx and the years of title_company, in order; never "present"
C10_YearsAndPhrasesOnly ==
  pc = "done" =>
    \A k \in 1..Len(entries) :
      LET ts == TokensOf(entries[k].title_company)
      IN entries[k].date_tokens = Keep(ts, {n \in 1..Len(ts) : YearSearch(ts[n]) # <<>>})

\* ------------------------------------- parse_resume_from_text, stepped

InitResume == pc = "start" /\ text \in ResumeInputs /\ Idle

\* line 274
ResumeClean ==
  /\ pc = "start"
  /\ cleaned' = clean_text(text)
  /\ invoked' = invoked \cup {"clean_text"}
  /\ pc' = "cleaned"
  /\ UNCHANGED <<text, recleaned, sections, contact, education, lines, cur_entry,
                 entries, record, skills, summary>>

\* line 275
ResumeSplit ==
  /\ pc = "cleaned"
  /\ sections' = split_sections(cleaned)
  /\ invoked' = invoked \cup {"split_sections"}
  /\ pc' = "split"
  /\ UNCHANGED <<text, cleaned, recleaned, contact, education, lines, cur_entry,
                 entries, record, skills, summary>>

\* line 278
ResumeContact ==
  /\ pc = "split"
  /\ contact' = extract_contact(cleaned)
  /\ invoked' = invoked \cup {"extract_contact"}
  /\ pc' = "contact"
  /\ UNCHANGED <<text, cleaned, recleaned, sections, education, lines, cur_entry,
                 entries, record, skills, summary>>

\* lines 281-289
ResumeSkills ==
  /\ pc = "contact"
  /\ skills' = extract_skills(SkillsText(sections, cleaned))
  /\ invoked' = invoked \cup {"extract_skills"}
  /\ pc' = "skills"
  /\ UNCHANGED <<text, cleaned, recleaned, sections, contact, education, lines,
                 cur_entry, entries, record, summary>>

\* lines 292-297
ResumeEducation ==
  /\ pc = "skills"
  /\ LET r == EducationOf(sections)
     IN education' = r.value /\ invoked' = invoked \cup r.calls
  /\ pc' = "education"
  /\ UNCHANGED <<text, cleaned, recleaned, sections, contact, lines, cur_entry,
                 entries, record, skills, summary>>

\* lines 300-305
ResumeExperience ==
  /\ pc = "education"
  /\ LET r == ExperienceOf(sections)
     IN entries' = r.value /\ invoked' = invoked \cup r.calls
  /\ pc' = "experience"
  /\ UNCHANGED <<text, cleaned, recleaned, sections, contact, education, lines,
                 cur_entry, record, skills, summary>>

\* lines 308-315
ResumeSummary ==
  /\ pc = "experience"
  /\ summary' = SummaryOf(sections)
  /\ pc' = "summary"
  /\ UNCHANGED <<text, cleaned, recleaned, sections, contact, education, lines,
                 cur_entry, entries, record, invoked, skills>>

\* lines 317-324
ResumeReturn ==
  /\ pc = "summary"
  /\ record' = [contact |-> contact, summary |-> summary, skills |-> skills,
                education |-> education, experience |-> entries,
                raw_sections |-> sections]
  /\ pc' = "done"
  /\ UNCHANGED <<text, cleaned, recleaned, sections, contact, education, lines,
                 cur_entry, entries, invoked, skills, summary>>

NextResume ==
  \/ ResumeClean
  \/ ResumeSplit
  \/ ResumeContact
  \/ ResumeSkills
  \/ ResumeEducation
  \/ ResumeExperience
  \/ ResumeSummary
  \/ ResumeReturn

SpecResume == InitResume /\ [][NextResume]_vars

\* the places, in insertion order, of the keys that contain sub
KeysWith(d, sub) == {i \in 1..Len(d) : Contains(d[i][1], sub)}

\* the first three lines of the "top" section
TopThree(d) ==
  LET i == CHOOSE j \in 1..Len(d) : d[j][1] = KeyTop
      ls == splitlines(d[i][2])
  IN join(NL, [n \in 1..(IF Len(ls) < 3 THEN Len(ls) ELSE 3) |-> ls[n]])

\* C7: the summary is the body of the first section, in insertion order,
\* whose key contains "summary" or "objective"; the first 3 lines of "top" are
\* the summary only if no key contains either word and "top" exists;
\* otherwise the summary is empty.
C7_SummaryOnlyIfNoKey ==
  pc = "done" =>
    LET d == record.raw_sections
        K == KeysWith(d, Lit_summary) \cup KeysWith(d, Lit_objective)
    IN IF K # {} THEN record.summary = d[Least(K)][2]
       ELSE IF KeyTop \in DictKeys(d) THEN record.summary = TopThree(d)
       ELSE record.summary = <<>>

\* C7 as the code has it: the summary is the body of the first section whose
\* key contains "summary" or "objective" when that body is not empty; if no
\* key contains either word or that first body is empty, it is the first 3
\* lines of "top" when "top" exists, and empty otherwise.
C7_SummaryOrTop ==
  pc = "done" =>
    LET d == record.raw_sections
        K == KeysWith(d, Lit_summary) \cup KeysWith(d, Lit_objective)
    IN IF K # {} /\ d[Least(K)][2] # <<>> THEN record.summary = d[Least(K)][2]
       ELSE IF KeyTop \in DictKeys(d) THEN record.summary = TopThree(d)
       ELSE record.summary = <<>>

\* C7 witness: a summary section without a body, and "top" has given the
\* summary
C7_Witness ==
  /\ pc = "done"
  /\ LET d == record.raw_sections
         K == KeysWith(d, Lit_summary) \cup KeysWith(d, Lit_objective)
     IN /\ K # {}
        /\ d[Least(K)][2] = <<>>
        /\ KeyTop \in DictKeys(d)
        /\ Len(splitlines(DictGet(d, KeyTop))) > 3
        /\ record.summary = TopThree(d)
        /\ record.summary # <<>>

\* the body of the first section whose key contains sub is empty, or there
\* is no such section
NoBodyFor(d, sub) ==
  LET K == KeysWith(d, sub)
  IN K = {} \/ d[Least(K)][2] = <<>>

EntryLines(es) ==
  Flatten([k \in 1..Len(es) |-> <<es[k].title_company>> \o es[k].details])

\* C11: parse_experience neither loses nor duplicates lines: the
\* title_company of each returned entry followed by its details, over the
\* entries in order, is exactly the sequence of non-empty trimmed input
\* lines; no details line contains a date token, and every entry but
\* possibly the first has a title_company that contains one.
C11_LinesKeptOnce ==
  pc = "done" =>
    /\ EntryLines(entries) = TrimmedLines
    /\ \A k \in 1..Len(entries) :
         /\ \A n \in 1..Len(entries[k].details) : ~HasDateToken(entries[k].details[n])
         /\ k > 1 => HasDateToken(entries[k].title_company)

\* C11 witness: a first entry without a date token, a later entry, details,
\* a line that was trimmed and a blank line that was dropped
C11_Witness ==
  /\ pc = "done"
  /\ Len(entries) >= 2
  /\ ~HasDateToken(entries[1].title_company)
  /\ entries[1].details # <<>>
  /\ entries[2].details # <<>>
  /\ Len(EntryLines(entries)) < Len(splitlines(text))
  /\ \E n \in 1..Len(splitlines(text)) :
       splitlines(text)[n] # <<>> /\ strip(splitlines(text)[n]) # splitlines(text)[n]

\* C2: clean_text is idempotent, clean_text(clean_text(x)) = clean_text(x)
\* for every input x.
C2_Idempotent == pc = "recleaned" => recleaned = cleaned

====
